---- MODULE Spec2Model ----
(***************************************************************************)
(* A model of kaleidoscope-ts: the character source (src/src/cstdio.ts),   *)
(* the character classes (src/src/cctype.ts), and the lexer, the parser    *)
(* and the driver loop of src/src/main.ts.                                 *)
(*                                                                         *)
(* A string is a sequence of one-character strings, so "def" is            *)
(* <<"d","e","f">>.  A character code is an integer, as in the source; the *)
(* tokens are the negative integers of enum Token and the codes of single  *)
(* characters.  Every function of the source that reads or writes the      *)
(* module-level state is an operator from a state record to a state        *)
(* record whose field ret is the value the function returns.               *)
(***************************************************************************)
EXTENDS Integers, Sequences, FiniteSets, TLC

VARIABLES argv, stream, LastChar, IdentifierStr, NumVal, CurTok,
          BinopPrecedence, stderr, pc, exitStatus,
          getcharCalls, tokens, results, pending, peak,
          calls, running, writers

vars == <<argv, stream, LastChar, IdentifierStr, NumVal, CurTok,
          BinopPrecedence, stderr, pc, exitStatus,
          getcharCalls, tokens, results, pending, peak,
          calls, running, writers>>

RECURSIVE JoinArgs(_)
RECURSIVE SkipWhitespace(_)
RECURSIVE ScanIdentifier(_)
RECURSIVE ScanNumber(_, _)
RECURSIVE SkipComment(_)
RECURSIVE gettok(_)
RECURSIVE ParseBinOpRHS(_, _, _)
RECURSIVE DigitsPrefix(_)
RECURSIVE DigitsValue(_)
RECURSIVE StripZeros(_, _)
RECURSIVE ParseArguments(_, _)
RECURSIVE ParseIdentifierExpr(_)
RECURSIVE ParseParenExpr(_)
RECURSIVE ParsePrimary(_)
RECURSIVE ParseExpression(_)
RECURSIVE ReadArgNames(_, _)
RECURSIVE CommaList(_)
RECURSIVE JoinPieces(_)
RECURSIVE Pow10(_)
RECURSIVE TokenStart(_)
RECURSIVE Leaves(_)
RECURSIVE LeavesOfAll(_)
RECURSIVE RefTree(_, _, _)
RECURSIVE LeftTree(_, _)
RECURSIVE HasNull(_)

(***************************************************************************)
(* lib: fromCharCode / toCharCode on the characters the lexer can meet.    *)
(***************************************************************************)
Ascii ==
  <<" ", "!", "\"", "#", "$", "%", "&", "'", "(", ")", "*", "+", ",", "-",
    ".", "/", "0", "1", "2", "3", "4", "5", "6", "7", "8", "9", ":", ";",
    "<", "=", ">", "?", "@", "A", "B", "C", "D", "E", "F", "G", "H", "I",
    "J", "K", "L", "M", "N", "O", "P", "Q", "R", "S", "T", "U", "V", "W",
    "X", "Y", "Z", "[", "\\", "]", "^", "_", "grave", "a", "b", "c", "d", "e",
    "f", "g", "h", "i", "j", "k", "l", "m", "n", "o", "p", "q", "r", "s",
    "t", "u", "v", "w", "x", "y", "z", "{", "|", "}", "~">>

\* Code 96 is written "grave".  The control characters 9..13, named by
\* their escapes.
Control == <<"\t", "\n", "\\v", "\f", "\r">>

\* String.fromCharCode: a one-character string; -1 wraps to U+FFFF.
fromCharCode(c) ==
  IF c \in 32..126 THEN <<Ascii[c - 31]>>
  ELSE IF c \in 9..13 THEN <<Control[c - 8]>>
  ELSE <<"\\uffff">>

\* The code of the first character of a string.
toCharCode(str) ==
  CHOOSE c \in (9..13) \cup (32..126) : fromCharCode(c) = <<str[1]>>

(***************************************************************************)
(* cctype.ts                                                               *)
(***************************************************************************)
Digits  == {"0", "1", "2", "3", "4", "5", "6", "7", "8", "9"}
Letters == {Ascii[i] : i \in (34..59) \cup (66..91)}

isalnum(c) == fromCharCode(c)[1] \in Letters \cup Digits

isalpha(c) == fromCharCode(c)[1] \in Letters

isdigit(c) == fromCharCode(c)[1] \in Digits

isspace(c) ==
  fromCharCode(c) \in {<<" ">>, <<"\t">>, <<"\n">>, <<"\\v">>, <<"\f">>, <<"\r">>}

(***************************************************************************)
(* cstdio.ts                                                               *)
(***************************************************************************)
EOF == -1

\* process.argv.slice(2).join(' ').split('')
JoinArgs(args) ==
  IF args = <<>> THEN <<>>
  ELSE IF Len(args) = 1 THEN args[1]
  ELSE args[1] \o <<" ">> \o JoinArgs(Tail(args))

\* The asynchronous functions whose calls are counted: pending[f] is the
\* number of calls of f whose promise is not settled, peak[f] the largest
\* value it has had.  The calls of f are numbered from 1 in the order they
\* are made: calls[f] is the number of calls made, running[f] the numbers of
\* the calls that are not settled, the innermost last.
Asyncs == {"getchar", "gettok", "getNextToken"}

Max(a, b) == IF a >= b THEN a ELSE b

\* A call of the async function f begins.
Call(s, f) ==
  [s EXCEPT !.pending[f] = @ + 1,
            !.peak[f] = Max(@, s.pending[f] + 1),
            !.calls[f] = @ + 1,
            !.running[f] = Append(@, s.calls[f] + 1)]

\* The promise of a call of f is settled and its awaiter goes on.
Settle(s, f) ==
  [s EXCEPT !.pending[f] = @ - 1,
            !.running[f] = SubSeq(@, 1, Len(@) - 1)]

\* The module-level variables that the lexer and getNextToken assign.
SharedVariables == {"LastChar", "IdentifierStr", "NumVal", "CurTok"}

\* The call of f that is executing: the innermost one not settled.
Writer(s, f) == <<f, s.running[f][Len(s.running[f])]>>

\* The executing call of f has assigned the variable v.  writers[v] is the
\* calls that have assigned v, in the order of their assignments, a call
\* being listed once for assignments that follow one another.
Wrote(s, v, f) ==
  [s EXCEPT !.writers[v] =
     IF @ # <<>> /\ @[Len(@)] = Writer(s, f) THEN @
     ELSE Append(@, Writer(s, f))]

\* const c = stream.shift(); return c ? toCharCode(c) : EOF
Shift(s) ==
  IF s.stream # <<>>
    THEN [s EXCEPT !.stream = Tail(s.stream),
                   !.getcharCalls = @ + 1,
                   !.ret = toCharCode(<<Head(s.stream)>>)]
    ELSE [s EXCEPT !.getcharCalls = @ + 1, !.ret = EOF]

\* getchar: shift the stream; EOF when nothing is left.
getchar(s) == Settle(Shift(Call(s, "getchar")), "getchar")

(***************************************************************************)
(* main.ts: the lexer                                                      *)
(***************************************************************************)
tok_eof        == -1
tok_def        == -2
tok_extern     == -3
tok_identifier == -4
tok_number     == -5

\* The value of an uninitialised `let`.
undefined == [kind |-> "undefined"]

\* Number values are IEEE doubles.  A decimal literal of at most
\* MaxExactDigits digits names its double exactly: Num(m, e) is the double
\* nearest to m / 10^e, m / 10^e in lowest decimal terms, and two such
\* literals give the same double exactly when they give the same Num.  The
\* double of a longer literal is Rounded: the double nearest to the literal
\* (Infinity and 0 included), which is not computed.
NaN == [kind |-> "NaN"]
Num(m, e) == [kind |-> "number", m |-> m, e |-> e]
Rounded(ip, fp) == [kind |-> "rounded", integer |-> ip, fraction |-> fp]

MaxExactDigits == 9

\* The longest prefix of str made of digits.
DigitsPrefix(str) ==
  IF str # <<>> /\ Head(str) \in Digits
    THEN <<Head(str)>> \o DigitsPrefix(Tail(str))
    ELSE <<>>

DigitValue(d) == toCharCode(<<d>>) - toCharCode(<<"0">>)

DigitsValue(ds) ==
  IF ds = <<>> THEN 0
  ELSE 10 * DigitsValue(SubSeq(ds, 1, Len(ds) - 1)) + DigitValue(ds[Len(ds)])

StripZeros(m, e) ==
  IF e > 0 /\ m % 10 = 0 THEN StripZeros(m \div 10, e - 1) ELSE Num(m, e)

\* The digits after the "." that follows the integer part ip of str.
FractionDigits(str, ip) ==
  IF Len(str) > Len(ip) /\ str[Len(ip) + 1] = "."
    THEN DigitsPrefix(SubSeq(str, Len(ip) + 2, Len(str)))
    ELSE <<>>

DecimalValue(ip, fp) ==
  IF ip = <<>> /\ fp = <<>> THEN NaN
  ELSE IF Len(ip \o fp) > MaxExactDigits THEN Rounded(ip, fp)
  ELSE StripZeros(DigitsValue(ip \o fp), Len(fp))

DecimalLiteral(str, ip) == DecimalValue(ip, FractionDigits(str, ip))

\* parseFloat on a text of digits and dots: the value of the longest
\* prefix that is a decimal literal, NaN when there is none.
parseFloat(str) == DecimalLiteral(str, DigitsPrefix(str))

\* return v, in state t
Returning(t, v) == [t EXCEPT !.ret = v]

\* LastChar = await getchar()
SetLastChar(g) ==
  Wrote([g EXCEPT !.LastChar = g.ret], "LastChar", "gettok")

ReadChar(s) == SetLastChar(getchar(s))

\* while (isspace(LastChar)) LastChar = await getchar();
SkipWhitespace(s) ==
  IF isspace(s.LastChar) THEN SkipWhitespace(ReadChar(s)) ELSE s

\* while (isalnum((LastChar = await getchar()))) IdentifierStr += ...
\* ScanIdentifier reads the next character, IdentifierLoop tests it.
IdentifierLoop_alpha(t) ==
  IF isalpha(t.LastChar)
    THEN ScanIdentifier(
           Wrote([t EXCEPT !.IdentifierStr = @ \o fromCharCode(t.LastChar)],
                 "IdentifierStr", "gettok"))
    ELSE t

IdentifierLoop(t) ==
  IF isalnum(t.LastChar)
    THEN ScanIdentifier(
           Wrote([t EXCEPT !.IdentifierStr = @ \o fromCharCode(t.LastChar)],
                 "IdentifierStr", "gettok"))
    ELSE t

ScanIdentifier(s) == IdentifierLoop(ReadChar(s))

IsNumberChar(c) == isdigit(c) \/ c = toCharCode(<<".">>)

\* do { NumStr += LastChar; LastChar = await getchar() } while (digit or '.')
\* ret is NumStr.
NumberLoop_digits(t, NumStr) ==
  IF isdigit(t.LastChar)
    THEN ScanNumber(t, NumStr)
    ELSE Returning(t, NumStr)

NumberLoop(t, NumStr) ==
  IF IsNumberChar(t.LastChar)
    THEN ScanNumber(t, NumStr)
    ELSE Returning(t, NumStr)

ScanNumber(s, NumStr) ==
  NumberLoop(ReadChar(s), NumStr \o fromCharCode(s.LastChar))

IsCommentEnd_newline(c) == c = EOF \/ c = toCharCode(<<"\n">>)

IsCommentEnd(c) ==
  c = EOF \/ c = toCharCode(<<"\n">>) \/ c = toCharCode(<<"\r">>)

\* do { LastChar = await getchar() } while (not EOF, '\n' or '\r')
CommentLoop(t) == IF IsCommentEnd(t.LastChar) THEN t ELSE SkipComment(t)

SkipComment(s) == CommentLoop(ReadChar(s))

\* The keyword or identifier token of a scanned word.
WordToken(str) ==
  IF str = <<"d", "e", "f">> THEN tok_def
  ELSE IF str = <<"e", "x", "t", "e", "r", "n">> THEN tok_extern
  ELSE tok_identifier

\* The end of gettok: the end-of-file check and the single-character token.
EndOrChar_consume(s) ==
  Returning(ReadChar(s), IF s.LastChar = EOF THEN tok_eof ELSE s.LastChar)

EndOrChar_keep(s) ==
  IF s.LastChar = EOF
    THEN Returning(s, tok_eof)
    ELSE Returning(s, s.LastChar)

EndOrChar(s) ==
  IF s.LastChar = EOF
    THEN Returning(s, tok_eof)
    ELSE Returning(ReadChar(s), s.LastChar)

\* The identifier branch, after the loop.
ReturnWord(t) == Returning(t, WordToken(t.IdentifierStr))

\* The number branch, after the loop: NumVal = parseFloat(NumStr).
ReturnNumber(t) ==
  Wrote([t EXCEPT !.NumVal = parseFloat(t.ret), !.ret = tok_number],
        "NumVal", "gettok")

\* The comment branch, after the loop.  return gettok() is a new call of
\* gettok, made while this call is pending; this call is settled with the
\* value of the new one.
AfterComment(t) == IF t.LastChar # EOF THEN gettok(t) ELSE EndOrChar(t)

\* gettok after the whitespace loop.
Scan(s) ==
  IF isalpha(s.LastChar)
    THEN ReturnWord(ScanIdentifier(
           Wrote([s EXCEPT !.IdentifierStr = fromCharCode(s.LastChar)],
                 "IdentifierStr", "gettok")))
  ELSE IF IsNumberChar(s.LastChar) THEN ReturnNumber(ScanNumber(s, <<>>))
  ELSE IF s.LastChar = toCharCode(<<"#">>) THEN AfterComment(SkipComment(s))
  ELSE EndOrChar(s)

\* gettok - Return the next token from standard input.
gettok(s) == Settle(Scan(SkipWhitespace(Call(s, "gettok"))), "gettok")

\* CurTok = await gettok().  tokens records every token the lexer has
\* returned, with the lookahead, the number of getchar calls, IdentifierStr
\* and NumVal at its return.
SetCurTok(t) ==
  Wrote([t EXCEPT !.CurTok = t.ret,
                  !.tokens = Append(@, [tok |-> t.ret,
                                        LastChar |-> t.LastChar,
                                        getcharCalls |-> t.getcharCalls,
                                        IdentifierStr |-> t.IdentifierStr,
                                        NumVal |-> t.NumVal])],
        "CurTok", "getNextToken")

getNextToken(s) ==
  Settle(SetCurTok(gettok(Call(s, "getNextToken"))), "getNextToken")

(***************************************************************************)
(* main.ts: the abstract syntax tree                                       *)
(***************************************************************************)
null == [kind |-> "null"]

NumberExprAST(Val) == [kind |-> "NumberExprAST", Val |-> Val]

VariableExprAST(Name) == [kind |-> "VariableExprAST", Name |-> Name]

BinaryExprAST(Op, LHS, RHS) ==
  [kind |-> "BinaryExprAST", Op |-> Op, LHS |-> LHS, RHS |-> RHS]

CallExprAST(Callee, Args) ==
  [kind |-> "CallExprAST", Callee |-> Callee, Args |-> Args]

PrototypeAST(Name, Args) ==
  [kind |-> "PrototypeAST", Name |-> Name, Args |-> Args]

FunctionAST(Proto, Body) ==
  [kind |-> "FunctionAST", Proto |-> Proto, Body |-> Body]

(***************************************************************************)
(* main.ts: the parser.  A function that awaits a call and goes on with    *)
(* its result is written as the call passed to an operator for the rest of *)
(* the function.                                                           *)
(***************************************************************************)
\* GetTokPrecedence - the precedence of the pending binary operator token.
GetTokPrecedence(s) ==
  IF s.CurTok \notin DOMAIN s.BinopPrecedence THEN -1
  ELSE IF s.BinopPrecedence[s.CurTok] <= 0 THEN -1
  ELSE s.BinopPrecedence[s.CurTok]

\* console.error(...): one line, kept as the arguments of the call.
ConsoleError(s, line) == [s EXCEPT !.stderr = Append(@, line)]

LogError_silent(s, Str) == Returning(s, null)

LogError(s, Str) ==
  Returning(ConsoleError(s, <<"LogError: %s", Str>>), null)

LogErrorP_twice(s, Str) ==
  Returning(LogError(ConsoleError(s, <<"LogError: %s", Str>>), Str), null)

LogErrorP(s, Str) == Returning(LogError(s, Str), null)

\* numberexpr ::= number
ParseNumberExpr(s) == Returning(getNextToken(s), NumberExprAST(s.NumVal))

\* parenexpr ::= '(' expression ')', after the expression
CloseParen(V) ==
  IF V.ret = null THEN Returning(V, null)
  ELSE IF V.CurTok # toCharCode(<<")">>) THEN LogError(V, "expected ')'")
  ELSE Returning(getNextToken(V), V.ret)

ParseParenExpr(s) == CloseParen(ParseExpression(getNextToken(s)))

AfterArgument_lenient(tok) ==
  IF tok # toCharCode(<<",">>) THEN "break" ELSE "next"

\* What follows a parsed argument: ")" ends the list, "," continues it,
\* anything else is an error.
AfterArgument(tok) ==
  IF tok = toCharCode(<<")">>) THEN "break"
  ELSE IF tok # toCharCode(<<",">>) THEN "error"
  ELSE "next"

\* Args.push(Arg)
PushArg_front(Args, Arg) == <<Arg>> \o Args

PushArg(Args, Arg) == Append(Args, Arg)

\* The while (true) loop of ParseIdentifierExpr: ParseArguments parses an
\* argument, NextArgument is the rest of the loop body.  ret is the
\* argument list (as [Args |-> ...]) or null.
NextArgument(Arg, Args) ==
  IF Arg.ret = null THEN Returning(Arg, null)
  ELSE IF AfterArgument(Arg.CurTok) = "break"
    THEN Returning(Arg, [Args |-> PushArg(Args, Arg.ret)])
  ELSE IF AfterArgument(Arg.CurTok) = "error"
    THEN LogError(Arg, "Expected ')' or ',' in argument list")
  ELSE ParseArguments(getNextToken(Arg), PushArg(Args, Arg.ret))

ParseArguments(s, Args) == NextArgument(ParseExpression(s), Args)

\* ParseIdentifierExpr after the argument list: eat the ')'.
FinishCall(r, IdName) ==
  IF r.ret = null THEN r
  ELSE Returning(getNextToken(r), CallExprAST(IdName, r.ret.Args))

\* ParseIdentifierExpr after eating the '('.
CallArguments(b, IdName) ==
  IF b.CurTok # toCharCode(<<")">>)
    THEN FinishCall(ParseArguments(b, <<>>), IdName)
    ELSE Returning(getNextToken(b), CallExprAST(IdName, <<>>))

\* ParseIdentifierExpr after eating the identifier.
VariableOrCall(a, IdName) ==
  IF a.CurTok # toCharCode(<<"(">>)
    THEN Returning(a, VariableExprAST(IdName))
    ELSE CallArguments(getNextToken(a), IdName)

\* identifierexpr ::= identifier | identifier '(' expression* ')'
ParseIdentifierExpr_late(s) ==
  VariableOrCall(getNextToken(s), getNextToken(s).IdentifierStr)

ParseIdentifierExpr(s) == VariableOrCall(getNextToken(s), s.IdentifierStr)

\* primary ::= identifierexpr | numberexpr | parenexpr
ParsePrimary(s) ==
  IF s.CurTok = tok_identifier THEN ParseIdentifierExpr(s)
  ELSE IF s.CurTok = tok_number THEN ParseNumberExpr(s)
  ELSE IF s.CurTok = toCharCode(<<"(">>) THEN ParseParenExpr(s)
  ELSE LogError(s, "unknown token when expecting an expression")

\* if (TokPrec < NextPrec) RHS = await ParseBinOpRHS(TokPrec+1, RHS):
\* whether the pending operator takes RHS as its LHS, and the minimum
\* precedence of that climb.
ClimbRHS_same(TokPrec, NextPrec) ==
  IF TokPrec < NextPrec
    THEN [climb |-> TRUE, ExprPrec |-> TokPrec]
    ELSE [climb |-> FALSE]

ClimbRHS_right(TokPrec, NextPrec) ==
  IF TokPrec <= NextPrec
    THEN [climb |-> TRUE, ExprPrec |-> TokPrec]
    ELSE [climb |-> FALSE]

ClimbRHS(TokPrec, NextPrec) ==
  IF TokPrec < NextPrec
    THEN [climb |-> TRUE, ExprPrec |-> TokPrec + 1]
    ELSE [climb |-> FALSE]

\* Merge LHS/RHS and loop around.
Merge(ExprPrec, LHS, BinOp, RHS) ==
  IF RHS.ret = null THEN Returning(RHS, null)
  ELSE ParseBinOpRHS(ExprPrec, BinaryExprAST(BinOp, LHS, RHS.ret), RHS)

\* RHS, climbed when the operator after it binds tighter.
Climb(up, P) ==
  IF up.climb THEN ParseBinOpRHS(up.ExprPrec, P.ret, P) ELSE P

\* The loop body after the primary that follows the operator.
AfterPrimary(ExprPrec, LHS, TokPrec, BinOp, P) ==
  IF P.ret = null THEN Returning(P, null)
  ELSE Merge(ExprPrec, LHS, BinOp,
             Climb(ClimbRHS(TokPrec, GetTokPrecedence(P)), P))

\* binoprhs ::= ('+' primary)*
ParseBinOpRHS(ExprPrec, LHS, s) ==
  IF GetTokPrecedence(s) < ExprPrec THEN Returning(s, LHS)
  ELSE AfterPrimary(ExprPrec, LHS, GetTokPrecedence(s), s.CurTok,
                    ParsePrimary(getNextToken(s)))

\* ParseExpression after the primary.
ExpressionRHS(LHS) ==
  IF LHS.ret = null THEN Returning(LHS, null)
  ELSE ParseBinOpRHS(0, LHS.ret, LHS)

\* expression ::= primary binoprhs
ParseExpression(s) == ExpressionRHS(ParsePrimary(s))

\* ArgsNames.push(IdentifierStr)
PushName_unique(ArgsNames, name) ==
  IF \E i \in DOMAIN ArgsNames : ArgsNames[i] = name
    THEN ArgsNames ELSE Append(ArgsNames, name)

PushName(ArgsNames, name) == Append(ArgsNames, name)

\* while (await getNextToken() === tok_identifier) ArgsNames.push(...)
\* ReadArgNames takes the token, ArgNamesLoop tests it.
\* ret is [Args |-> ArgsNames].
ArgNamesLoop(t, ArgsNames) ==
  IF t.ret = tok_identifier
    THEN ReadArgNames(t, PushName(ArgsNames, t.IdentifierStr))
    ELSE Returning(t, [Args |-> ArgsNames])

ReadArgNames(s, ArgsNames) == ArgNamesLoop(getNextToken(s), ArgsNames)

\* ParsePrototype after the argument names.
PrototypeClose_eat(r, FnName) ==
  IF r.CurTok # toCharCode(<<")">>)
    THEN LogErrorP(getNextToken(r), "Expected ')' in prototype")
    ELSE Returning(getNextToken(r), PrototypeAST(FnName, r.ret.Args))

PrototypeClose(r, FnName) ==
  IF r.CurTok # toCharCode(<<")">>)
    THEN LogErrorP(r, "Expected ')' in prototype")
    ELSE Returning(getNextToken(r), PrototypeAST(FnName, r.ret.Args))

\* ParsePrototype after the function name.
PrototypeOpen(a, FnName) ==
  IF a.CurTok # toCharCode(<<"(">>)
    THEN LogErrorP(a, "Expected '(' in prototype")
    ELSE PrototypeClose(ReadArgNames(a, <<>>), FnName)

\* prototype ::= id '(' id* ')'
ParsePrototype(s) ==
  IF s.CurTok # tok_identifier
    THEN LogErrorP(s, "Expected function name in prototype")
    ELSE PrototypeOpen(getNextToken(s), s.IdentifierStr)

\* ParseDefinition after the body.
MakeFunction(Proto, E) ==
  IF E.ret # null
    THEN Returning(E, FunctionAST(Proto, E.ret))
    ELSE Returning(E, null)

\* ParseDefinition after the prototype.
DefinitionBody(Proto) ==
  IF Proto.ret = null THEN Returning(Proto, null)
  ELSE MakeFunction(Proto.ret, ParseExpression(Proto))

\* definition ::= 'def' prototype expression
ParseDefinition(s) == DefinitionBody(ParsePrototype(getNextToken(s)))

\* ParseTopLevelExpr after the expression: make an anonymous proto.
MakeAnonymous_named(E) ==
  IF E.ret # null
    THEN Returning(E, FunctionAST(
           PrototypeAST(<<"_", "_", "a", "n", "o", "n">>, <<>>), E.ret))
    ELSE Returning(E, null)

MakeAnonymous_always(E) ==
  Returning(E, FunctionAST(PrototypeAST(<<>>, <<>>), E.ret))

MakeAnonymous(E) ==
  IF E.ret # null
    THEN Returning(E, FunctionAST(PrototypeAST(<<>>, <<>>), E.ret))
    ELSE Returning(E, null)

\* toplevelexpr ::= expression
ParseTopLevelExpr(s) == MakeAnonymous(ParseExpression(s))

\* external ::= 'extern' prototype
ParseExtern(s) == ParsePrototype(getNextToken(s))

(***************************************************************************)
(* main.ts: top-level parsing.  A handler returns nothing; ret is what its *)
(* parse function returned to it and the number of tokens lexed by then.   *)
(***************************************************************************)
Parsed(P) == [ast |-> P.ret, tokens |-> Len(P.tokens)]

\* Skip token for error recovery.
Recover_none(P) == P

Recover(P) == getNextToken(P)

\* if (await Parse...()) console.error(line) else getNextToken()
Report(P, line) ==
  Returning(IF P.ret # null THEN ConsoleError(P, line) ELSE Recover(P),
            Parsed(P))

HandleDefinition(s) ==
  Report(ParseDefinition(s), <<"Parsed a function definition.">>)

HandleExtern(s) == Report(ParseExtern(s), <<"Parsed an extern">>)

HandleTopLevelExpression(s) ==
  Report(ParseTopLevelExpr(s), <<"Parsed a top-level expr">>)

\* Map.set
MapSet(m, k, v) ==
  [x \in DOMAIN m \cup {k} |-> IF x = k THEN v ELSE m[x]]

\* Install standard binary operators.
InstallBinops(m) ==
  MapSet(MapSet(MapSet(MapSet(m, toCharCode(<<"<">>), 10),
                       toCharCode(<<"+">>), 20),
                toCharCode(<<"-">>), 30),
         toCharCode(<<"*">>), 40)

(***************************************************************************)
(* The command lines of the model.                                         *)
(***************************************************************************)
MaxArgs     == 4   \* arguments of a command line over Vocabulary
MaxOps      == 4   \* binary operators of an operator chain
MaxCallArgs == 3   \* arguments of a call
MaxParams   == 3   \* parameters of a prototype

W_def    == <<"d", "e", "f">>
W_extern == <<"e", "x", "t", "e", "r", "n">>

Vocabulary ==
  {W_def, W_extern, <<"f">>, <<"1">>, <<"(">>, <<")">>, <<",">>, <<"+">>,
   <<";">>}

SeqsUpTo(S, n) == UNION {[1..k -> S] : k \in 0..n}

\* The pieces one after the other.
JoinPieces(ps) ==
  IF ps = <<>> THEN <<>> ELSE Head(ps) \o JoinPieces(Tail(ps))

\* e1 , e2 , ... , ek
CommaList(es) ==
  IF es = <<>> THEN <<>>
  ELSE IF Len(es) = 1 THEN es[1]
  ELSE es[1] \o <<<<",">>>> \o CommaList(Tail(es))

GeneralInputs == SeqsUpTo(Vocabulary, MaxArgs)

Operators == {<<"<">>, <<"+">>, <<"-">>, <<"*">>}

\* The k-th primary of a chain: the digit k or the k-th letter.
ChainPrimary(style, k) ==
  IF style = "number" THEN fromCharCode(toCharCode(<<"0">>) + k)
  ELSE fromCharCode(toCharCode(<<"a">>) + k - 1)

\* p1 op1 p2 op2 ... pn+1, one argument per token
ChainArgs(ops, style) ==
  [i \in 1..(2 * Len(ops) + 1) |->
     IF i % 2 = 1 THEN ChainPrimary(style, (i + 1) \div 2) ELSE ops[i \div 2]]

ChainInputs ==
  {ChainArgs(ops, style) :
     ops \in SeqsUpTo(Operators, MaxOps), style \in {"number", "variable"}}

ArgExprs ==
  { <<<<"1">>>>,
    <<<<"x">>>>,
    <<<<"x">>, <<"+">>, <<"2">>>>,
    <<<<"g">>, <<"(">>, <<"3">>, <<")">>>> }

CallTails ==
  { <<<<")">>>>,
    <<>>,
    <<<<",">>, <<")">>>>,
    <<<<";">>>>,
    <<<<"4">>>>,
    <<<<")">>, <<"+">>, <<"5">>>> }

\* f ( e1 , ... , ek <tail>
CallInputs ==
  {<<<<"f">>, <<"(">>>> \o CommaList(es) \o tail :
     es \in SeqsUpTo(ArgExprs, MaxCallArgs), tail \in CallTails}

FunctionNames == {<<"f">>, <<"f", "o", "o">>}
ParamNames    == {<<"x">>, <<"y">>}

Bodies ==
  { <<<<"1">>>>,
    <<<<"x">>, <<"+">>, <<"1">>>>,
    <<<<"f">>, <<"(">>, <<"x">>, <<",">>, <<"y">>, <<")">>>>,
    <<>> }

\* def name ( id1 ... idk ) body   and   extern name ( id1 ... idk )
DefInputs ==
  {<<W_def, name, <<"(">>>> \o params \o <<<<")">>>> \o body :
     name \in FunctionNames, params \in SeqsUpTo(ParamNames, MaxParams),
     body \in Bodies}

ExternInputs ==
  {<<W_extern, name, <<"(">>>> \o params \o <<<<")">>>> :
     name \in FunctionNames, params \in SeqsUpTo(ParamNames, MaxParams)}

\* Command lines whose arguments are written without spaces.
Examples ==
  { <<<<"1", "+", "2", "*", "3">>>>,
    <<<<"1", "-", "2", "-", "3">>>>,
    <<<<"f", "o", "o", "(", "1", ",", "2", ")">>>>,
    <<<<"f", "o", "o", "(", "1", ",", "2">>>>,
    <<<<"d", "e", "f", " ", "f", "o", "o", "(", "x", ")", " ",
        "x", "+", "1">>>>,
    <<<<"4", "2">>>>,
    <<<<"#", " ", "c", "\n", "4", "2">>>>,
    <<<<"#", "a", "\n", "#", "b", "\n", "1">>, <<")">>>>,
    <<<<"#", "a", "\r", "f", "(", "1", ")">>, <<"#", "b">>>>,
    <<<<"1", "+">>, <<"#", "a", "\n">>, <<"2">>>>,
    <<W_def, <<"f", "(", "x", ")", "#", "x", "\n">>, <<"x">>>>,
    <<<<"#">>>> }

\* What can stand where the ')' of a prototype is expected; nothing is the
\* end of the command line.
Stoppers ==
  { <<<<",">>>>, <<<<"1">>>>, <<W_def>>, <<W_extern>>, <<<<";">>>>,
    <<<<"(">>>>, <<>> }

StopperTails == { <<>>, <<<<")">>>>, <<<<"y">>, <<")">>, <<"1">>>> }

\* def name ( id1 ... idk <stopper> <tail>, and the same after extern
UnclosedPrototypes ==
  {<<keyword, name, <<"(">>>> \o params \o stopper \o tail :
     keyword \in {W_def, W_extern}, name \in FunctionNames,
     params \in SeqsUpTo(ParamNames, MaxParams),
     stopper \in Stoppers, tail \in StopperTails}

Inputs ==
  GeneralInputs \cup ChainInputs \cup CallInputs \cup DefInputs
    \cup ExternInputs \cup UnclosedPrototypes \cup Examples

MaxPieces == 4   \* pieces of a text for the lexer

\* Texts for the lexer alone: pieces written one after the other without
\* spaces, as one argument.
Pieces ==
  {W_def, W_extern, <<"a">>, <<"1">>, <<".">>, <<"#">>, <<" ">>, <<"\n">>,
   <<"\r">>, <<"(">>}

\* The texts the lexer is documented on.
LexExamples ==
  { <<<<"3", ".", "1", "4">>>>,
    <<<<"3", ".", "1", ".", "4">>>>,
    <<<<"#", " ", "c", "o", "m", "m", "e", "n", "t", "\n", "4", "2">>>> }

LexInputs ==
  {<<JoinPieces(ps)>> : ps \in SeqsUpTo(Pieces, MaxPieces)} \cup LexExamples

(***************************************************************************)
(* The program as a state machine: main, then one step per iteration of    *)
(* MainLoop.                                                               *)
(***************************************************************************)
State ==
  [stream |-> stream, LastChar |-> LastChar, IdentifierStr |-> IdentifierStr,
   NumVal |-> NumVal, CurTok |-> CurTok, BinopPrecedence |-> BinopPrecedence,
   stderr |-> stderr, getcharCalls |-> getcharCalls, tokens |-> tokens,
   pending |-> pending, peak |-> peak, calls |-> calls,
   running |-> running, writers |-> writers, ret |-> undefined]

Becomes(t) ==
  /\ stream' = t.stream
  /\ LastChar' = t.LastChar
  /\ IdentifierStr' = t.IdentifierStr
  /\ NumVal' = t.NumVal
  /\ CurTok' = t.CurTok
  /\ BinopPrecedence' = t.BinopPrecedence
  /\ stderr' = t.stderr
  /\ getcharCalls' = t.getcharCalls
  /\ tokens' = t.tokens
  /\ pending' = t.pending
  /\ peak' = t.peak
  /\ calls' = t.calls
  /\ running' = t.running
  /\ writers' = t.writers

\* One iteration of MainLoop, as the driver sees it.
Iteration(case, t) ==
  [case |-> case,
   ast |-> t.ret.ast,
   tokensBefore |-> Len(tokens),
   tokensParsed |-> t.ret.tokens,
   tokensAfter |-> Len(t.tokens),
   stderrBefore |-> Len(stderr),
   stderrAfter |-> Len(t.stderr)]

\* The state after an iteration of MainLoop that ends in state t.
Iterates(case, t) ==
  /\ Becomes(t)
  /\ results' = Append(results, Iteration(case, t))

\* Before the process is given its command line.
Init ==
  /\ argv = <<>>
  /\ stream = <<>>
  /\ LastChar = toCharCode(<<" ">>)
  /\ IdentifierStr = undefined
  /\ NumVal = undefined
  /\ CurTok = undefined
  /\ BinopPrecedence = <<>>
  /\ stderr = <<>>
  /\ pc = "load"
  /\ exitStatus = <<>>
  /\ getcharCalls = 0
  /\ tokens = <<>>
  /\ results = <<>>
  /\ pending = [f \in Asyncs |-> 0]
  /\ peak = [f \in Asyncs |-> 0]
  /\ calls = [f \in Asyncs |-> 0]
  /\ running = [f \in Asyncs |-> <<>>]
  /\ writers = [v \in SharedVariables |-> <<>>]

\* The process starts with a command line; loading cstdio.ts makes the
\* stream of it.
Load ==
  /\ pc = "load"
  /\ argv' \in Inputs
  /\ stream' = JoinArgs(argv')
  /\ pc' = "main"
  /\ UNCHANGED <<LastChar, IdentifierStr, NumVal, CurTok, BinopPrecedence,
                 stderr, exitStatus, getcharCalls, tokens, results,
                 pending, peak, calls, running, writers>>

\* main: install the operators and prime the first token.
Main ==
  /\ pc = "main"
  /\ Becomes(getNextToken(
               [State EXCEPT !.BinopPrecedence = InstallBinops(@)]))
  /\ pc' = "MainLoop"
  /\ UNCHANGED <<argv, exitStatus, results>>

\* case tok_eof: MainLoop returns, main returns 0, process.exit(0).
MainLoopEof ==
  /\ pc = "MainLoop"
  /\ CurTok = tok_eof
  /\ pc' = "exit"
  /\ exitStatus' = <<0>>
  /\ UNCHANGED <<argv, stream, LastChar, IdentifierStr, NumVal, CurTok,
                 BinopPrecedence, stderr, getcharCalls, tokens, results,
                 pending, peak, calls, running, writers>>

\* case ';': ignore top-level semicolons.
MainLoopSemicolon ==
  /\ pc = "MainLoop"
  /\ CurTok = toCharCode(<<";">>)
  /\ Iterates(";", Returning(getNextToken(State), Parsed(State)))
  /\ UNCHANGED <<argv, pc, exitStatus>>

MainLoopDefinition ==
  /\ pc = "MainLoop"
  /\ CurTok = tok_def
  /\ Iterates("HandleDefinition", HandleDefinition(State))
  /\ UNCHANGED <<argv, pc, exitStatus>>

MainLoopExtern ==
  /\ pc = "MainLoop"
  /\ CurTok = tok_extern
  /\ Iterates("HandleExtern", HandleExtern(State))
  /\ UNCHANGED <<argv, pc, exitStatus>>

MainLoopDefault ==
  /\ pc = "MainLoop"
  /\ CurTok \notin {tok_eof, toCharCode(<<";">>), tok_def, tok_extern}
  /\ Iterates("HandleTopLevelExpression", HandleTopLevelExpression(State))
  /\ UNCHANGED <<argv, pc, exitStatus>>

Next ==
  \/ Load
  \/ Main
  \/ MainLoopEof
  \/ MainLoopSemicolon
  \/ MainLoopDefinition
  \/ MainLoopExtern
  \/ MainLoopDefault

Spec == Init /\ [][Next]_vars

\* Next can take a step exactly while the program has not exited.
Running == pc # "exit"

\* The driver is never suspended for ever, every await resolves: weak
\* fairness of Next, WF_vars(Next), with ENABLED <<Next>>_vars written as
\* the state predicate Running.
WeakFairness == []<>(~Running) \/ []<><<Next>>_vars

FairSpec == Spec /\ WeakFairness

(***************************************************************************)
(* The lexer on its own: a text, then one getNextToken per step until the  *)
(* end of the text.                                                        *)
(***************************************************************************)
LexLoad ==
  /\ pc = "load"
  /\ argv' \in LexInputs
  /\ stream' = JoinArgs(argv')
  /\ pc' = "lex"
  /\ UNCHANGED <<LastChar, IdentifierStr, NumVal, CurTok, BinopPrecedence,
                 stderr, exitStatus, getcharCalls, tokens, results,
                 pending, peak, calls, running, writers>>

\* No token has been taken yet, or the last one was not the end.
MoreTokens ==
  IF tokens = <<>> THEN TRUE ELSE tokens[Len(tokens)].tok # tok_eof

LexToken ==
  /\ pc = "lex"
  /\ MoreTokens
  /\ Becomes(getNextToken(State))
  /\ UNCHANGED <<argv, pc, exitStatus, results>>

LexNext == LexLoad \/ LexToken

LexSpec == Init /\ [][LexNext]_vars

(***************************************************************************)
(* Properties.                                                             *)
(***************************************************************************)
Started == pc \notin {"load", "main"}

AnonFunction(body) == FunctionAST(PrototypeAST(<<>>, <<>>), body)

\* The first construct the driver handled.
First == results[1]

\* A command line p1 op1 p2 ... opn pn+1 whose primaries are one digit or
\* one letter and whose operators are in the precedence table.
IsPrimaryWord(w) == Len(w) = 1 /\ w[1] \in Digits \cup Letters

IsOperatorWord(w) == Len(w) = 1 /\ toCharCode(w) \in DOMAIN BinopPrecedence

IsChain(args) ==
  /\ Len(args) % 2 = 1
  /\ \A i \in DOMAIN args :
       IF i % 2 = 1 THEN IsPrimaryWord(args[i]) ELSE IsOperatorWord(args[i])

PrimaryAST(w) ==
  IF w[1] \in Digits THEN NumberExprAST(Num(DigitValue(w[1]), 0))
  ELSE VariableExprAST(w)

Prec(w) == BinopPrecedence[toCharCode(w)]

Bin(opw, l, r) == BinaryExprAST(toCharCode(opw), l, r)

\* The reference grouping of args[lo..hi]: the root is the rightmost
\* operator of least precedence.
RefTree(args, lo, hi) ==
  IF lo = hi THEN PrimaryAST(args[lo])
  ELSE LET opsAt == {i \in lo..hi : i % 2 = 0}
           least == CHOOSE p \in {Prec(args[i]) : i \in opsAt} :
                      \A i \in opsAt : p <= Prec(args[i])
           root  == CHOOSE k \in opsAt :
                      /\ Prec(args[k]) = least
                      /\ \A i \in opsAt : Prec(args[i]) = least => i <= k
       IN  Bin(args[root], RefTree(args, lo, root - 1),
               RefTree(args, root + 1, hi))

\* C1: an expression of primaries separated by operators of the precedence
\* table is grouped tighter-binding operators first: a op1 b op2 c is
\* op1(a, op2(b, c)) when op2 binds strictly tighter than op1 and
\* op2(op1(a, b), c) otherwise, and a longer chain is grouped as the
\* reference grouping.
C1_PrecedenceGrouping ==
  (Started /\ results # <<>> /\ IsChain(argv)) =>
    /\ First.ast = AnonFunction(RefTree(argv, 1, Len(argv)))
    /\ Len(argv) = 5 =>
         LET a == PrimaryAST(argv[1])
             b == PrimaryAST(argv[3])
             c == PrimaryAST(argv[5])
         IN  First.ast.Body =
               IF Prec(argv[4]) > Prec(argv[2])
                 THEN Bin(argv[2], a, Bin(argv[4], b, c))
                 ELSE Bin(argv[4], Bin(argv[2], a, b), c)

C1_Witness ==
  /\ Started /\ results # <<>>
  /\ argv = <<<<"1">>, <<"+">>, <<"2">>, <<"*">>, <<"3">>, <<"+">>, <<"4">>>>
  /\ First.ast.Body =
       Bin(<<"+">>,
           Bin(<<"+">>, PrimaryAST(<<"1">>),
               Bin(<<"*">>, PrimaryAST(<<"2">>), PrimaryAST(<<"3">>))),
           PrimaryAST(<<"4">>))

\* (((p1 op p2) op p3) ... op pn+1) for args[1..hi]
LeftTree(args, hi) ==
  IF hi = 1 THEN PrimaryAST(args[1])
  ELSE Bin(args[hi - 1], LeftTree(args, hi - 2), PrimaryAST(args[hi]))

EqualPrecedence(args) ==
  \A i, j \in DOMAIN args :
    (i % 2 = 0 /\ j % 2 = 0) => Prec(args[i]) = Prec(args[j])

\* C2: a chain of two or more operators of equal precedence is grouped
\* left-associatively, whatever its length.
C2_LeftAssociative ==
  (Started /\ results # <<>> /\ IsChain(argv) /\ Len(argv) >= 5
     /\ EqualPrecedence(argv)) =>
    First.ast = AnonFunction(LeftTree(argv, Len(argv)))

C2_Witness ==
  /\ Started /\ results # <<>>
  /\ argv = <<<<"1">>, <<"-">>, <<"2">>, <<"-">>, <<"3">>, <<"-">>, <<"4">>>>
  /\ First.ast.Body.LHS.LHS =
       Bin(<<"-">>, PrimaryAST(<<"1">>), PrimaryAST(<<"2">>))

\* C3: once gettok has returned end-of-stream, every later gettok returns
\* end-of-stream, leaves LastChar as it was and calls getchar no more; and
\* getchar returns EOF on every call once the input is exhausted.
C3_EofIsSticky ==
  /\ \A i, j \in DOMAIN tokens :
       (i < j /\ tokens[i].tok = tok_eof) =>
         /\ tokens[j].tok = tok_eof
         /\ tokens[j].LastChar = tokens[i].LastChar
         /\ tokens[j].getcharCalls = tokens[i].getcharCalls
  /\ stream = <<>> =>
       LET g == getchar(State)
       IN  /\ g.ret = EOF /\ g.stream = <<>>
           /\ getchar(g).ret = EOF /\ getchar(g).stream = <<>>

C3_Witness ==
  /\ Len(tokens) >= 3
  /\ tokens[Len(tokens) - 1].tok = tok_eof
  /\ tokens[Len(tokens)].tok = tok_eof
  /\ tokens[Len(tokens)].getcharCalls = Len(JoinArgs(argv)) + 1
  /\ stream = <<>>

\* The lines a MainLoop iteration wrote to stderr.
LinesOf(r) == SubSeq(stderr, r.stderrBefore + 1, r.stderrAfter)

IsLogError(line) == line[1] = "LogError: %s"

IsParsed(line) ==
  line \in {<<"Parsed a function definition.">>, <<"Parsed an extern">>,
            <<"Parsed a top-level expr">>}

Count(lines, P(_)) == Cardinality({i \in DOMAIN lines : P(lines[i])})

IsConstruct(r) == r.case # ";"

\* An absent child somewhere inside a node.
HasNull(ast) ==
  IF ast.kind = "null" THEN TRUE
  ELSE IF ast.kind = "BinaryExprAST" THEN HasNull(ast.LHS) \/ HasNull(ast.RHS)
  ELSE IF ast.kind = "CallExprAST"
    THEN \E i \in DOMAIN ast.Args : HasNull(ast.Args[i])
  ELSE IF ast.kind = "FunctionAST" THEN HasNull(ast.Proto) \/ HasNull(ast.Body)
  ELSE FALSE

\* C4: a failure anywhere inside a top-level construct (every failure is
\* born at a LogError) reaches the handler as absent: no node is built from
\* the partial children and no "Parsed ..." line is written; a node that is
\* returned holds no absent child.
C4_FailurePropagates ==
  \A i \in DOMAIN results :
    LET r == results[i]
    IN  IsConstruct(r) =>
          /\ Count(LinesOf(r), IsLogError) > 0 =>
               (r.ast = null /\ Count(LinesOf(r), IsParsed) = 0)
          /\ r.ast # null => ~HasNull(r.ast)

\* A failure two calls deep: the argument of a call that is the body of a
\* definition.
C4_Witness ==
  /\ results # <<>>
  /\ argv = <<W_def, <<"f">>, <<"(">>, <<"x">>, <<")">>,
              <<"f">>, <<"(">>, <<"x">>, <<",">>, <<"y">>, <<")">>>>
       \/ argv = <<<<"f">>, <<"(">>, <<"(">>, <<")">>>>
  /\ argv[1] # W_def
  /\ First.ast = null
  /\ LinesOf(First) =
       <<<<"LogError: %s", "unknown token when expecting an expression">>>>

\* C5: after a construct fails the driver consumes exactly one token and
\* the next iteration starts at the token that is then current; after a
\* construct succeeds it consumes none.
C5_RecoveryConsumesOneToken ==
  /\ \A i \in DOMAIN results :
       LET r == results[i]
       IN  /\ IsConstruct(r) =>
                r.tokensAfter =
                  IF r.ast = null THEN r.tokensParsed + 1 ELSE r.tokensParsed
           /\ i > 1 => r.tokensBefore = results[i - 1].tokensAfter
  /\ (Started /\ results # <<>>) =>
       /\ Len(tokens) = results[Len(results)].tokensAfter
       /\ CurTok = tokens[Len(tokens)].tok
       /\ pc \in {"MainLoop", "exit"}

\* ") 1": the first construct fails on ")", one token is skipped, and the
\* next construct is the expression 1.
C5_Witness ==
  /\ Len(results) = 2
  /\ argv = <<<<")">>, <<"1">>>>
  /\ results[1].ast = null
  /\ results[1].tokensParsed = 1 /\ results[1].tokensAfter = 2
  /\ results[2].ast = AnonFunction(PrimaryAST(<<"1">>))
  /\ results[2].tokensBefore = 2
  /\ results[2].tokensAfter = results[2].tokensParsed

\* A construct failed somewhere in the run.
\* C6: whatever fails to parse, the driver reaches end-of-stream and main
\* completes with status 0; every MainLoop iteration that does not return
\* consumes at least one token.
C6_Terminates ==
  /\ <>(pc = "exit" /\ exitStatus = <<0>>)
  /\ [][(pc = "MainLoop" /\ pc' = "MainLoop") => Len(tokens') > Len(tokens)]_vars
  /\ [](exitStatus # <<>> => (exitStatus = <<0>> /\ CurTok = tok_eof))

\* Three failed constructs, then the exit.
C6_Witness ==
  /\ pc = "exit" /\ exitStatus = <<0>>
  /\ Len(results) >= 3
  /\ \A i \in 1..3 : IsConstruct(results[i]) /\ results[i].ast = null

\* name ( e1 , ... , ek <tail>, one argument per token
CallArgv(name, es, tail) == <<name, <<"(">>>> \o CommaList(es) \o tail

\* The tails that put neither ")" nor "," after the last argument.
UnclosedTails ==
  {tail \in CallTails : tail = <<>> \/ tail[1] \notin {<<")">>, <<",">>}}

ArgumentListError ==
  <<"LogError: %s", "Expected ')' or ',' in argument list">>

\* The state in which MainLoop is about to handle the first construct.
AtFirst == pc = "MainLoop" /\ results = <<>>

StartsCall(args) == Len(args) >= 2 /\ args[1] = <<"f">> /\ args[2] = <<"(">>

IsUnclosedCall(args) ==
  \/ args = <<<<"f", "o", "o", "(", "1", ",", "2">>>>
  \/ /\ StartsCall(args)
     /\ \E es \in SeqsUpTo(ArgExprs, MaxCallArgs) \ {<<>>}, tail \in UnclosedTails :
          args = CallArgv(<<"f">>, es, tail)

\* C7: in a call, when the token after a parsed argument is neither ")" nor
\* "," (end-of-stream included), ParseIdentifierExpr returns absent and the
\* construct writes exactly one line, the LogError "Expected ')' or ',' in
\* argument list".
C7_UnclosedCall ==
  /\ (AtFirst /\ IsUnclosedCall(argv)) =>
       LET P == ParseIdentifierExpr(State)
       IN  P.ret = null /\ P.stderr = <<ArgumentListError>>
  /\ (Started /\ results # <<>> /\ IsUnclosedCall(argv)) =>
       /\ First.case = "HandleTopLevelExpression"
       /\ First.ast = null
       /\ LinesOf(First) = <<ArgumentListError>>

\* foo(1,2 : the list ends at end-of-stream.
C7_Witness ==
  /\ argv = <<<<"f", "o", "o", "(", "1", ",", "2">>>>
  /\ results # <<>>
  /\ First.ast = null
  /\ stderr = <<ArgumentListError>>
  /\ tokens[First.tokensParsed].tok = tok_eof

\* The trees of the argument expressions and bodies of the command lines.
One == NumberExprAST(Num(1, 0))
VarX == VariableExprAST(<<"x">>)

ExprAST(e) ==
  CASE e = <<<<"1">>>> -> One
    [] e = <<<<"x">>>> -> VarX
    [] e = <<<<"x">>, <<"+">>, <<"2">>>> ->
         Bin(<<"+">>, VarX, NumberExprAST(Num(2, 0)))
    [] e = <<<<"x">>, <<"+">>, <<"1">>>> -> Bin(<<"+">>, VarX, One)
    [] e = <<<<"g">>, <<"(">>, <<"3">>, <<")">>>> ->
         CallExprAST(<<"g">>, <<NumberExprAST(Num(3, 0))>>)
    [] e = <<<<"f">>, <<"(">>, <<"x">>, <<",">>, <<"y">>, <<")">>>> ->
         CallExprAST(<<"f">>, <<VarX, VariableExprAST(<<"y">>)>>)

ExpectedCall(name, es) ==
  CallExprAST(name, [i \in 1..Len(es) |-> ExprAST(es[i])])

\* C8: identifier ( e1 , ... , ek ) parses to Call(identifier, [e1 .. ek])
\* in source order (k = 0 gives no arguments); an identifier not followed
\* by "(" parses to VariableRef(identifier); a comma right before ")" makes
\* the call fail.
C8_CallAndVariable ==
  /\ AtFirst =>
       /\ StartsCall(argv) => \A es \in SeqsUpTo(ArgExprs, MaxCallArgs) :
            /\ argv \in {CallArgv(<<"f">>, es, <<<<")">>>>),
                         CallArgv(<<"f">>, es, <<<<")">>, <<"+">>, <<"5">>>>)} =>
                 ParseIdentifierExpr(State).ret = ExpectedCall(<<"f">>, es)
            /\ (es # <<>> /\ argv = CallArgv(<<"f">>, es, <<<<",">>, <<")">>>>)) =>
                 ParseIdentifierExpr(State).ret = null
       /\ (argv # <<>> /\ CurTok = tok_identifier /\ argv[1] = IdentifierStr
             /\ (Len(argv) = 1 \/ argv[2] # <<"(">>)) =>
            ParseIdentifierExpr(State).ret = VariableExprAST(argv[1])
  /\ (Started /\ results # <<>>) =>
       /\ StartsCall(argv) => \A es \in SeqsUpTo(ArgExprs, MaxCallArgs) :
            /\ argv = CallArgv(<<"f">>, es, <<<<")">>>>) =>
                 First.ast = AnonFunction(ExpectedCall(<<"f">>, es))
            /\ (es # <<>> /\ argv = CallArgv(<<"f">>, es, <<<<",">>, <<")">>>>)) =>
                 First.ast = null
       /\ argv = <<<<"f", "o", "o", "(", "1", ",", "2", ")">>>> =>
            First.ast = AnonFunction(
              CallExprAST(<<"f", "o", "o">>, <<One, NumberExprAST(Num(2, 0))>>))

\* f ( x + 2 , g ( 3 ) , 1 )
C8_Witness ==
  /\ results # <<>>
  /\ argv = CallArgv(<<"f">>,
                     << <<<<"x">>, <<"+">>, <<"2">>>>,
                        <<<<"g">>, <<"(">>, <<"3">>, <<")">>>>,
                        <<<<"1">>>> >>,
                     <<<<")">>>>)
  /\ First.ast.Body.kind = "CallExprAST"
  /\ Len(First.ast.Body.Args) = 3
  /\ First.ast.Body.Args[3] = One

\* def name ( id1 ... idk ) body, one argument per token
DefArgv(name, params, body) ==
  <<W_def, name, <<"(">>>> \o params \o <<<<")">>>> \o body

\* C9: def name ( id1 ... idk ) expr with a well-formed body yields
\* Function(Prototype(name, [id1 .. idk]), body): the parameters are the
\* identifiers between the parentheses in source order, duplicates kept.
C9_Definition ==
  (Started /\ results # <<>>) =>
    /\ \A name \in FunctionNames, params \in SeqsUpTo(ParamNames, MaxParams),
          body \in Bodies \ {<<>>} :
         argv = DefArgv(name, params, body) =>
           /\ First.case = "HandleDefinition"
           /\ First.ast = FunctionAST(PrototypeAST(name, params), ExprAST(body))
    /\ argv = <<<<"d", "e", "f", " ", "f", "o", "o", "(", "x", ")", " ",
                  "x", "+", "1">>>> =>
         First.ast = FunctionAST(PrototypeAST(<<"f", "o", "o">>, <<<<"x">>>>),
                                 Bin(<<"+">>, VarX, One))

\* def foo ( x y x ) x + 1
C9_Witness ==
  /\ results # <<>>
  /\ argv = DefArgv(<<"f", "o", "o">>, <<<<"x">>, <<"y">>, <<"x">>>>,
                    <<<<"x">>, <<"+">>, <<"1">>>>)
  /\ First.ast.Proto.Args = <<<<"x">>, <<"y">>, <<"x">>>>
  /\ First.ast.Body = Bin(<<"+">>, VarX, One)

\* MainLoop is at a token that starts a bare expression.
AtDefault ==
  /\ pc = "MainLoop"
  /\ CurTok \notin {tok_eof, toCharCode(<<";">>), tok_def, tok_extern}

\* C10: a bare top-level expression that parses is returned by
\* ParseTopLevelExpr as Function(Prototype("", []), expr), the body being
\* the expression ParseExpression parsed.
C10_AnonymousFunction ==
  /\ AtDefault =>
       LET E == ParseExpression(State)
           F == ParseTopLevelExpr(State)
       IN  E.ret # null =>
             /\ F.ret = FunctionAST(PrototypeAST(<<>>, <<>>), E.ret)
             /\ F.tokens = E.tokens
  /\ \A i \in DOMAIN results :
       (results[i].case = "HandleTopLevelExpression" /\ results[i].ast # null) =>
         /\ results[i].ast.kind = "FunctionAST"
         /\ results[i].ast.Proto = PrototypeAST(<<>>, <<>>)
  /\ (results # <<>> /\ argv = <<<<"4", "2">>>>) =>
       First.ast = FunctionAST(PrototypeAST(<<>>, <<>>), NumberExprAST(Num(42, 0)))

C10_Witness ==
  /\ results # <<>>
  /\ argv = <<<<"4", "2">>>>
  /\ First.case = "HandleTopLevelExpression"
  /\ First.ast.Proto.Name = <<>> /\ First.ast.Proto.Args = <<>>
  /\ First.ast.Body = NumberExprAST(Num(42, 0))
(***************************************************************************)
(* The text the lexer reads, and the part of it each token was made from.  *)
(***************************************************************************)
\* The characters in the order the lexer sees them: the initial lookahead
\* ' ', then the command line.  After k calls of getchar the lookahead is
\* Seen[k + 1], or EOF past the end.
Seen == <<" ">> \o JoinArgs(argv)

Whitespace == {" ", "\t", "\n", "\\v", "\f", "\r"}

Alnum == Letters \cup Digits

NumberChars == Digits \cup {"."}

\* The position of the lookahead when the call that returned token i began,
\* and when it returned.
SpanStart(i) == IF i = 1 THEN 1 ELSE tokens[i - 1].getcharCalls + 1

LookaheadPos(i) == tokens[i].getcharCalls + 1

\* The first position from b on that holds no character of S, Len(Seen) + 1
\* when there is none.
FirstNotIn(b, S) ==
  CHOOSE w \in b..(Len(Seen) + 1) :
    /\ \A k \in b..(w - 1) : Seen[k] \in S
    /\ w <= Len(Seen) => Seen[w] \notin S

\* Token i was lexed with a character of S as the lookahead after the
\* whitespace.
StartsWith(i, S) ==
  /\ FirstNotIn(SpanStart(i), Whitespace) <= Len(Seen)
  /\ Seen[FirstNotIn(SpanStart(i), Whitespace)] \in S

\* The maximal run of characters of S that token i starts with.
RunOf(i, S) ==
  SubSeq(Seen, FirstNotIn(SpanStart(i), Whitespace),
         FirstNotIn(FirstNotIn(SpanStart(i), Whitespace), S) - 1)

\* The lookahead at the return of token i is the character after that run.
StopsAfterRun(i, S) ==
  LookaheadPos(i) = FirstNotIn(FirstNotIn(SpanStart(i), Whitespace), S)

\* C11: a token lexed from a letter consumes the maximal run of
\* alphanumeric characters; it is the def token when the run is "def", the
\* extern token when it is "extern", otherwise the identifier token, and
\* IdentifierStr is the text of the run.
C11_IdentifierRun ==
  \A i \in DOMAIN tokens :
    StartsWith(i, Letters) =>
      /\ StopsAfterRun(i, Alnum)
      /\ tokens[i].IdentifierStr = RunOf(i, Alnum)
      /\ tokens[i].tok = tok_def <=> RunOf(i, Alnum) = W_def
      /\ tokens[i].tok = tok_extern <=> RunOf(i, Alnum) = W_extern
      /\ tokens[i].tok = tok_identifier <=> RunOf(i, Alnum) \notin {W_def, W_extern}

\* "def1 extern": an identifier that begins like a keyword, then a keyword.
C11_Witness ==
  /\ pc = "lex"
  /\ Len(tokens) >= 2
  /\ tokens[1].tok = tok_identifier
  /\ tokens[1].IdentifierStr = <<"d", "e", "f", "1">>
  /\ tokens[2].tok = tok_extern

Pow10(n) == IF n = 0 THEN 1 ELSE 10 * Pow10(n - 1)

Dots(str) == Cardinality({k \in DOMAIN str : str[k] = "."})

\* A decimal literal among the texts of digits and dots: at least one
\* digit, at most one dot.
IsDecimal(str) == Dots(str) <= 1 /\ Len(str) > Dots(str)

Prefixes(str) == {SubSeq(str, 1, n) : n \in 0..Len(str)}

\* The digits of a text, without its dots.
DigitsOf(str) == SelectSeq(str, LAMBDA c : c # ".")

\* The digits after the dot of a decimal literal.
FractionLen(str) ==
  IF Dots(str) = 0 THEN 0
  ELSE Len(str) - (CHOOSE k \in DOMAIN str : str[k] = ".")

\* v is the value of the decimal literal str.
IsValueOf(v, str) ==
  IF Len(DigitsOf(str)) > MaxExactDigits THEN v.kind = "rounded"
  ELSE /\ v.kind = "number"
       /\ v.m * Pow10(FractionLen(str)) = DigitsValue(DigitsOf(str)) * Pow10(v.e)
       /\ v.e = 0 \/ v.m % 10 # 0

\* v is the value of the longest prefix of str that is a decimal literal,
\* NaN when no prefix is one.
IsPrefixValueOf(v, str) ==
  IF \E p \in Prefixes(str) : IsDecimal(p)
    THEN \E p \in Prefixes(str) :
           /\ IsDecimal(p)
           /\ \A q \in Prefixes(str) : IsDecimal(q) => Len(q) <= Len(p)
           /\ IsValueOf(v, p)
    ELSE v = NaN

\* C12: a token lexed from a digit or '.' consumes the maximal run of
\* digits and dots and is one number token, whose value is the value of the
\* longest prefix of the run that is a decimal literal.
C12_NumberRun ==
  \A i \in DOMAIN tokens :
    StartsWith(i, NumberChars) =>
      /\ StopsAfterRun(i, NumberChars)
      /\ tokens[i].tok = tok_number
      /\ IsPrefixValueOf(tokens[i].NumVal, RunOf(i, NumberChars))

\* "3.1.4" is one number token of value 3.1, and the text ends after it.
C12_Witness ==
  /\ pc = "lex"
  /\ JoinArgs(argv) = <<"3", ".", "1", ".", "4">>
  /\ Len(tokens) = 2
  /\ tokens[1].tok = tok_number
  /\ tokens[1].NumVal = Num(31, 1)
  /\ tokens[2].tok = tok_eof

\* The characters that do not end a comment.
InComment == {Seen[k] : k \in DOMAIN Seen} \ {"\n", "\r"}

\* The first position from b on that is neither whitespace nor part of a
\* comment, Len(Seen) + 1 when a comment runs to the end of the text.
TokenStart(b) ==
  IF FirstNotIn(b, Whitespace) > Len(Seen) THEN Len(Seen) + 1
  ELSE IF Seen[FirstNotIn(b, Whitespace)] # "#"
    THEN FirstNotIn(b, Whitespace)
  ELSE IF FirstNotIn(FirstNotIn(b, Whitespace), InComment) > Len(Seen)
    THEN Len(Seen) + 1
  ELSE TokenStart(FirstNotIn(FirstNotIn(b, Whitespace), InComment))

\* Token i is the token that the text has at position w.
IsTokenAt(i, w) ==
  IF w > Len(Seen)
    THEN tokens[i].tok = tok_eof /\ tokens[i].LastChar = EOF
  ELSE IF Seen[w] \in Letters
    THEN /\ tokens[i].tok = WordToken(SubSeq(Seen, w, FirstNotIn(w, Alnum) - 1))
         /\ tokens[i].IdentifierStr = SubSeq(Seen, w, FirstNotIn(w, Alnum) - 1)
         /\ LookaheadPos(i) = FirstNotIn(w, Alnum)
  ELSE IF Seen[w] \in NumberChars
    THEN /\ tokens[i].tok = tok_number
         /\ IsPrefixValueOf(tokens[i].NumVal,
                            SubSeq(Seen, w, FirstNotIn(w, NumberChars) - 1))
         /\ LookaheadPos(i) = FirstNotIn(w, NumberChars)
  ELSE /\ tokens[i].tok = toCharCode(<<Seen[w]>>)
       /\ LookaheadPos(i) = w + 1

\* C13: a token lexed from a '#' is the first token after the comment, the
\* text up to the next "\n" or "\r" being discarded, and is the end-of-file
\* token when the comment runs to the end of the text.
C13_CommentSkipped ==
  \A i \in DOMAIN tokens :
    StartsWith(i, {"#"}) => IsTokenAt(i, TokenStart(SpanStart(i)))

\* "#a\r1": the comment ends at the carriage return and the token is the
\* number after it.
C13_Witness ==
  /\ pc = "lex"
  /\ JoinArgs(argv) = <<"#", "a", "\r", "1">>
  /\ Len(tokens) = 2
  /\ tokens[1].tok = tok_number
  /\ tokens[1].NumVal = Num(1, 0)
  /\ tokens[1].getcharCalls = 5
  /\ tokens[2].tok = tok_eof

\* C14: at every point of every run at most one call of getchar, one of
\* gettok and one of getNextToken is pending, a call being made only when
\* the previous call of the same function has been settled, and none is
\* pending between the steps of the driver; and no two pending calls
\* assign LastChar, CurTok, IdentifierStr or NumVal at once: the
\* assignments of a call to a variable are not interrupted by another
\* call's.
C14_OnePendingOneWriter ==
  /\ \A f \in Asyncs : peak[f] <= 1 /\ pending[f] = 0
  /\ \A v \in SharedVariables :
       \A j, k \in DOMAIN writers[v] :
         writers[v][j] = writers[v][k] => j = k

\* The messages that section 4.2 of the specification quotes.
QuotedMessages ==
  {"unknown token when expecting an expression",
   "Expected function name in prototype",
   "Expected ')' in prototype"}

\* The messages of the calls of LogError and LogErrorP in the source.
SourceMessages ==
  QuotedMessages \cup
    {"expected ')'",
     "Expected ')' or ',' in argument list",
     "Expected '(' in prototype"}

\* Every construct that failed wrote a LogError line, and every LogError
\* line has a message of the set.
FailuresLogged(messages) ==
  /\ \A i \in DOMAIN results :
       (IsConstruct(results[i]) /\ results[i].ast = null) =>
         Count(LinesOf(results[i]), IsLogError) > 0
  /\ \A k \in DOMAIN stderr :
       IsLogError(stderr[k]) => stderr[k][2] \in messages

\* C15, as claimed: every syntax failure writes "LogError: <message>" with
\* one of the three messages that section 4.2 quotes.
C15_QuotedMessagesOnly == FailuresLogged(QuotedMessages)

\* C15, amended: every syntax failure writes "LogError: <message>" with one
\* of the six messages of the source: the three that section 4.2 quotes,
\* "expected ')'", "Expected ')' or ',' in argument list" and
\* "Expected '(' in prototype".
C15_SourceMessages == FailuresLogged(SourceMessages)

\* "( 1" failed for its missing ')' and "def 1" for its missing name.
C15_Witness ==
  /\ pc = "exit"
  /\ \E i \in DOMAIN results : IsConstruct(results[i]) /\ results[i].ast = null
  /\ \E k \in DOMAIN stderr : stderr[k] = <<"LogError: %s", "expected ')'">>
  /\ \E k \in DOMAIN stderr :
       stderr[k] = <<"LogError: %s", "Expected function name in prototype">>

\* Iteration r parsed a prototype that has its name and its '('.
HasOpenPrototype(r) ==
  /\ r.case \in {"HandleDefinition", "HandleExtern"}
  /\ tokens[r.tokensBefore + 1].tok = tok_identifier
  /\ tokens[r.tokensBefore + 2].tok = toCharCode(<<"(">>)

\* The index of the first token after that '(' that is not an identifier.
StopperOf(r) ==
  CHOOSE q \in (r.tokensBefore + 3)..Len(tokens) :
    /\ \A j \in (r.tokensBefore + 3)..(q - 1) : tokens[j].tok = tok_identifier
    /\ tokens[q].tok # tok_identifier

\* C16: when the first token after the parameters of a prototype is not
\* ')', the prototype is absent, the one line written is
\* "LogError: Expected ')' in prototype", and that token is the current
\* token when the parse returns.
C16_PrototypeStopper ==
  \A i \in DOMAIN results :
    (/\ HasOpenPrototype(results[i])
     /\ tokens[StopperOf(results[i])].tok # toCharCode(<<")">>)) =>
      /\ results[i].ast = null
      /\ LinesOf(results[i]) =
           <<<<"LogError: %s", "Expected ')' in prototype">>>>
      /\ results[i].tokensParsed = StopperOf(results[i])

\* "def f ( x y , y ) 1": two parameters collected, the ',' stops the
\* collection and is the current token when the definition fails.
C16_Witness ==
  /\ pc = "exit"
  /\ argv = <<W_def, <<"f">>, <<"(">>, <<"x">>, <<"y">>, <<",">>, <<"y">>,
              <<")">>, <<"1">>>>
  /\ results[1].ast = null
  /\ results[1].tokensParsed = 6
  /\ tokens[6].tok = toCharCode(<<",">>)

\* The character of the text at position p as getchar returns it.
CodeAt(p) == IF p <= Len(Seen) THEN toCharCode(<<Seen[p]>>) ELSE EOF

\* C17: at the return of every token LastChar is the character of the text
\* right after the token (EOF after the last one), and the token is the one
\* the text has where the token before it ended, whitespace and comments
\* skipped: the tokens cover the text in order, no character is lost and
\* none is lexed twice.
C17_LookaheadAfterToken ==
  \A i \in DOMAIN tokens :
    /\ LookaheadPos(i) <= Len(Seen) + 1
    /\ tokens[i].LastChar = CodeAt(LookaheadPos(i))
    /\ IsTokenAt(i, TokenStart(SpanStart(i)))

\* "a(1a": each token ends where the next begins.
C17_Witness ==
  /\ pc = "lex"
  /\ JoinArgs(argv) = <<"a", "(", "1", "a">>
  /\ Len(tokens) = 5
  /\ tokens[1].LastChar = toCharCode(<<"(">>)
  /\ tokens[2].LastChar = toCharCode(<<"1">>)
  /\ tokens[3].LastChar = toCharCode(<<"a">>)
  /\ tokens[4].LastChar = EOF
  /\ tokens[5].tok = tok_eof

\* The line a handler writes for a construct it parsed.
ParsedLine(case) ==
  IF case = "HandleDefinition" THEN <<"Parsed a function definition.">>
  ELSE IF case = "HandleExtern" THEN <<"Parsed an extern">>
  ELSE <<"Parsed a top-level expr">>

\* C18: an iteration of MainLoop for a definition, an extern or a top-level
\* expression writes exactly one line: the "Parsed ..." line of its handler
\* when the construct is parsed, one "LogError: ..." line when it is absent;
\* an iteration for ';' writes none.
C18_OneLinePerConstruct ==
  \A i \in DOMAIN results :
    IF IsConstruct(results[i])
      THEN /\ Len(LinesOf(results[i])) = 1
           /\ results[i].ast # null =>
                LinesOf(results[i])[1] = ParsedLine(results[i].case)
           /\ results[i].ast = null => IsLogError(LinesOf(results[i])[1])
      ELSE LinesOf(results[i]) = <<>>

\* A run with a definition that failed in its prototype, a top-level
\* expression that was parsed and a ';'.
C18_Witness ==
  /\ pc = "exit"
  /\ \E i \in DOMAIN results :
       /\ results[i].case = "HandleDefinition"
       /\ results[i].ast = null
       /\ LinesOf(results[i]) =
            <<<<"LogError: %s", "Expected function name in prototype">>>>
  /\ \E i \in DOMAIN results :
       /\ results[i].case = "HandleTopLevelExpression"
       /\ results[i].ast # null
  /\ \E i \in DOMAIN results : results[i].case = ";"

\* The names and values a node stores, in the order of the text.
Leaves(ast) ==
  IF ast.kind = "NumberExprAST" THEN <<<<"number", ast.Val>>>>
  ELSE IF ast.kind = "VariableExprAST" THEN <<<<"name", ast.Name>>>>
  ELSE IF ast.kind = "BinaryExprAST" THEN Leaves(ast.LHS) \o Leaves(ast.RHS)
  ELSE IF ast.kind = "CallExprAST"
    THEN <<<<"name", ast.Callee>>>> \o LeavesOfAll(ast.Args)
  ELSE IF ast.kind = "PrototypeAST"
    THEN <<<<"name", ast.Name>>>> \o [k \in DOMAIN ast.Args |-> <<"name", ast.Args[k]>>]
  ELSE IF ast.kind = "FunctionAST"
    THEN (IF ast.Proto.Name = <<>> THEN <<>> ELSE Leaves(ast.Proto))
           \o Leaves(ast.Body)
  ELSE <<>>

LeavesOfAll(asts) ==
  IF asts = <<>> THEN <<>> ELSE Leaves(Head(asts)) \o LeavesOfAll(Tail(asts))

\* The text of an identifier token, the value of a number token, as the
\* text of the command line has them at the token's place.
TextOf(j) ==
  IF tokens[j].tok = tok_identifier
    THEN <<"name", SubSeq(Seen, TokenStart(SpanStart(j)), LookaheadPos(j) - 1)>>
    ELSE <<"number", tokens[j].NumVal>>

IsNameOrNumber(j) == tokens[j].tok \in {tok_identifier, tok_number}

\* The identifiers and numbers among tokens lo..hi, in order.
NamesAndNumbers(lo, hi) ==
  [k \in 1..Cardinality({j \in lo..hi : IsNameOrNumber(j)}) |->
     TextOf(CHOOSE j \in lo..hi :
              /\ IsNameOrNumber(j)
              /\ Cardinality({h \in lo..j : IsNameOrNumber(h)}) = k)]

\* The current token is the last token lexed, and the scratch fields hold
\* what it was lexed from.
ScratchIsCurrent ==
  /\ CurTok = tokens[Len(tokens)].tok
  /\ CurTok = tok_identifier =>
       <<"name", IdentifierStr>> = TextOf(Len(tokens))
  /\ CurTok = tok_number =>
       /\ NumVal = tokens[Len(tokens)].NumVal
       /\ IsTokenAt(Len(tokens), TokenStart(SpanStart(Len(tokens))))

\* C19: while the current token is an identifier IdentifierStr is its text,
\* while it is a number NumVal is its value; and the names and values in
\* the node of a parsed construct are, in order, the texts of the
\* identifier tokens and the values of the number tokens the construct was
\* parsed from, whatever was lexed after each of them.
C19_NamesAreTokenTexts ==
  Started =>
    /\ ScratchIsCurrent
    /\ \A i \in DOMAIN results :
         (IsConstruct(results[i]) /\ results[i].ast # null) =>
           Leaves(results[i].ast) =
             NamesAndNumbers(results[i].tokensBefore,
                             results[i].tokensParsed - 1)

\* "f def ...": the variable f has been parsed and the keyword after it
\* has overwritten IdentifierStr.
C19_Witness ==
  /\ pc = "MainLoop"
  /\ Len(results) = 1
  /\ results[1].ast = AnonFunction(VariableExprAST(<<"f">>))
  /\ CurTok = tok_def
  /\ IdentifierStr = W_def

====
